---- MODULE Spec2Model ----
(***************************************************************************)
(* A model of twist_mux (src/src/twist_mux.cpp): the velocity multiplexer  *)
(* that forwards, on every velocity reception, the received command iff    *)
(* the receiving topic handle currently has priority.                      *)
(*                                                                         *)
(* TwistMux::getLockPriority, TwistMux::hasPriority, TwistMux::publishTwist*)
(* TwistMux::updateDiagnostics and TwistMux::init are translated from the  *)
(* source.  The topic handles (twist_mux/topic_handle.hpp: the reception   *)
(* callbacks, isMasked, isLocked, the staleness test) are not part of the  *)
(* source at hand and are modelled from the specification's sections 3 and *)
(* 4.1 - 4.3.                                                              *)
(***************************************************************************)
EXTENDS Integers, Sequences, FiniteSets, TLC

(* ------------------------------ bounds -------------------------------- *)

\* The clock runs over 0 .. MaxTime.
MaxTime == 2
\* Configured priorities are drawn from 0 .. MaxPriority.
MaxPriority == 2
\* Configured timeouts are drawn from 0 .. MaxTimeout.
MaxTimeout == 1
\* A configuration holds at most MaxHandles topic handles, velocity and lock
\* handles together.
MaxHandles == 3

\* The parameter prefixes list_parameters({"topics"}) / ({"locks"}) can
\* return, in the order of the list (twist_mux.cpp:164-167).  A prefix always
\* starts with the parameter name it was listed under.
TopicPrefixes == <<"topics.a", "topics.b">>
LockPrefixes == <<"locks.x", "locks.y">>
\* The stamped_topic parameter under each topic prefix.
StampedTopic == <<FALSE, TRUE>>

Priorities == 0 .. MaxPriority
Timeouts == 0 .. MaxTimeout

(* ----------------------------- messages ------------------------------- *)

\* geometry_msgs::msg::Twist: the two components the mux looks at.
Twists ==
  { [linear_x |-> 1, angular_z |-> 0], [linear_x |-> 0, angular_z |-> 1] }

ZeroTwist == [linear_x |-> 0, angular_z |-> 0]

\* A default-constructed std_msgs::msg::Header (stamp 0, empty frame).
DefaultHeader == [stamp |-> 0, frame_id |-> ""]

\* The header a sender puts on a TwistStamped it sends at time t.
SenderHeader(t) == [stamp |-> t, frame_id |-> "base_link"]

\* A message on the wire: kind is the message type.
TwistMsg(v) == [kind |-> "Twist", header |-> DefaultHeader, twist |-> v]
TwistStampedMsg(h, v) == [kind |-> "TwistStamped", header |-> h, twist |-> v]

\* The messages a velocity topic of the given shape can deliver at time t.
Inbound(stamped, t) ==
  IF stamped
    THEN { TwistStampedMsg(SenderHeader(t), v) : v \in Twists }
    ELSE { TwistMsg(v) : v \in Twists }

(* --------------------------- topic handles ---------------------------- *)

\* twist_mux.cpp:186-193: a velocity handle is emplaced with the prefix as
\* its name, the timeout and the priority; the message type is TwistStamped
\* iff stamped_topic.  No message has been received yet.
VelocityTopicHandle(prefix, timeout, priority, stamped_topic) ==
  [ name |-> prefix, timeout |-> timeout, priority |-> priority,
    stamped |-> stamped_topic, received |-> FALSE, stamp |-> 0,
    msg |-> IF stamped_topic THEN TwistStampedMsg(DefaultHeader, ZeroTwist)
                             ELSE TwistMsg(ZeroTwist) ]

\* twist_mux.cpp:195: a lock handle.
LockTopicHandle(prefix, timeout, priority) ==
  [ name |-> prefix, timeout |-> timeout, priority |-> priority,
    received |-> FALSE, stamp |-> 0, data |-> FALSE ]

getPriority(h) == h.priority
getName(h) == h.name

\* Staleness of a handle at time t: never received, or the time since the
\* last reception is at least the timeout (specification, section 3).
hasExpired(h, t) == (~h.received) \/ (t - h.stamp >= h.timeout)

\* Specification 3 / 4.1: masked = stale, or priority < lock priority.
isMasked(h, lock_priority, t) ==
  hasExpired(h, t) \/ (getPriority(h) < lock_priority)

\* Specification 3 / 4.2: locked = asserted and not stale.
isLocked(l, t) == l.received /\ l.data /\ (t - l.stamp < l.timeout)

(* ------------------------------ TwistMux ------------------------------ *)

\* A variant of the loop below that keeps the priority of the last locked
\* handle instead of the greatest one.
RECURSIVE LockPriorityLoop_LastLocked(_, _, _, _)
LockPriorityLoop_LastLocked(locks, k, priority, t) ==
  IF k > Len(locks)
    THEN priority
    ELSE LockPriorityLoop_LastLocked(locks, k + 1,
           IF isLocked(locks[k], t) THEN getPriority(locks[k]) ELSE priority,
           t)

\* A variant of the loop below that does not ask whether a handle is locked.
RECURSIVE LockPriorityLoop_AnyLock(_, _, _, _)
LockPriorityLoop_AnyLock(locks, k, priority, t) ==
  IF k > Len(locks)
    THEN priority
    ELSE LockPriorityLoop_AnyLock(locks, k + 1,
           IF priority < getPriority(locks[k]) THEN getPriority(locks[k])
                                               ELSE priority,
           t)

\* twist_mux.cpp:210-217: the loop of getLockPriority over lock_hs[k..],
\* priority being the running maximum.
RECURSIVE LockPriorityLoop(_, _, _, _)
LockPriorityLoop(locks, k, priority, t) ==
  IF k > Len(locks)
    THEN priority
    ELSE LET lock_h == locks[k]
             tmp == getPriority(lock_h)
         IN  LockPriorityLoop(locks, k + 1,
               IF isLocked(lock_h, t) /\ priority < tmp THEN tmp ELSE priority,
               t)

\* twist_mux.cpp:204-222.
getLockPriority(locks, t) == LockPriorityLoop(locks, 1, 0, t)

\* A variant of the loop below that does not ask whether a handle is masked.
RECURSIVE VelocityLoop_IgnoreMask(_, _, _, _, _)
VelocityLoop_IgnoreMask(vels, k, acc, lock_priority, t) ==
  IF k > Len(vels)
    THEN acc
    ELSE VelocityLoop_IgnoreMask(vels, k + 1,
           IF acc.priority < getPriority(vels[k])
             THEN [priority |-> getPriority(vels[k]),
                   velocity_name |-> getName(vels[k])]
             ELSE acc,
           lock_priority, t)

\* twist_mux.cpp:234-244: the loop of hasPriority over velocity_hs[k..]; acc
\* holds the running (priority, velocity_name).
RECURSIVE VelocityLoop(_, _, _, _, _)
VelocityLoop(vels, k, acc, lock_priority, t) ==
  IF k > Len(vels)
    THEN acc
    ELSE LET handle == vels[k]
             velocity_priority == getPriority(handle)
         IN  VelocityLoop(vels, k + 1,
               IF (~isMasked(handle, lock_priority, t))
                    /\ acc.priority < velocity_priority
                 THEN [priority |-> velocity_priority,
                       velocity_name |-> getName(handle)]
                 ELSE acc,
               lock_priority, t)

\* A variant of hasPriority that compares the priority found, not the name.
hasPriority_ByPriority(vels, locks, twist, t) ==
  LET lock_priority == getLockPriority(locks, t)
      res == VelocityLoop(vels, 1,
               [priority |-> 0, velocity_name |-> "NULL"], lock_priority, t)
  IN  getPriority(twist) = res.priority

\* A variant of hasPriority that does not consult the locks.
hasPriority_NoLocks(vels, locks, twist, t) ==
  LET res == VelocityLoop(vels, 1,
               [priority |-> 0, velocity_name |-> "NULL"], 0, t)
  IN  getName(twist) = res.velocity_name

\* A variant of hasPriority whose search starts below every priority.
hasPriority_FromBelow(vels, locks, twist, t) ==
  LET lock_priority == getLockPriority(locks, t)
      res == VelocityLoop(vels, 1,
               [priority |-> -1, velocity_name |-> "NULL"], lock_priority, t)
  IN  getName(twist) = res.velocity_name

\* twist_mux.cpp:224-247.
hasPriority(vels, locks, twist, t) ==
  LET lock_priority == getLockPriority(locks, t)
      res == VelocityLoop(vels, 1,
               [priority |-> 0, velocity_name |-> "NULL"], lock_priority, t)
  IN  getName(twist) = res.velocity_name

\* A variant of publishTwist whose wrapping of a Twist leaves the twist of the
\* TwistStamped default-constructed.
publishTwist_EmptyWrap(msg, out_stamped, pub) ==
  IF out_stamped
    THEN IF msg.kind = "TwistStamped"
           THEN [out |-> <<msg>>, fatal |-> FALSE]
           ELSE [out |-> <<TwistStampedMsg(DefaultHeader, ZeroTwist)>>,
                 fatal |-> FALSE]
    ELSE [out |-> <<TwistMsg(msg.twist)>>, fatal |-> FALSE]

\* A variant of publishTwist that always publishes the bare twist, whatever
\* output_stamped says.
publishTwist_AlwaysBare(msg, out_stamped, pub) ==
  [out |-> <<TwistMsg(msg.twist)>>, fatal |-> FALSE]

\* twist_mux.cpp:116-156: what publishTwist(msg) puts on cmd_vel_out, and
\* whether it logs the fatal "unexpected publisher type" error.
publishTwist(msg, out_stamped, pub) ==
  IF out_stamped
    THEN IF pub = "TwistStamped"
           THEN IF msg.kind = "TwistStamped"
                  THEN [out |-> <<msg>>, fatal |-> FALSE]
                  ELSE [out |-> <<TwistStampedMsg(DefaultHeader, msg.twist)>>,
                        fatal |-> FALSE]
           ELSE [out |-> <<>>, fatal |-> TRUE]
    ELSE IF pub = "Twist"
           THEN [out |-> <<TwistMsg(msg.twist)>>, fatal |-> FALSE]
           ELSE [out |-> <<>>, fatal |-> TRUE]

(* ------------------------------- state -------------------------------- *)

VARIABLES
  velocity_hs,      \* *velocity_hs_: the velocity handles, in list order
  lock_hs,          \* *lock_hs_: the lock handles, in list order
  output_stamped,   \* the output_stamped parameter
  cmd_pub_,         \* the type of the publisher held by cmd_pub_
  status_priority,  \* status_->priority
  now,              \* the node's clock
  ev,               \* the callback that ran last at the current instant
  published,        \* what that callback published on cmd_vel_out
  fatal,            \* whether that callback logged the publisher-type error
  call              \* the velocity callback in progress, when it runs in steps

vars == << velocity_hs, lock_hs, output_stamped, cmd_pub_, status_priority,
           now, ev, published, fatal, call >>

config == << output_stamped, cmd_pub_ >>

\* twist_mux.cpp:159-202: the handles getTopicHandles builds from the first n
\* listed prefixes, one per prefix, in the order of the list.
VelocityHandleLists ==
  UNION { { [k \in 1 .. n |->
               VelocityTopicHandle(TopicPrefixes[k], to[k], pr[k],
                                   StampedTopic[k])] :
            to \in [1 .. n -> Timeouts], pr \in [1 .. n -> Priorities] } :
          n \in 1 .. Len(TopicPrefixes) }

LockHandleLists ==
  UNION { { [k \in 1 .. n |-> LockTopicHandle(LockPrefixes[k], to[k], pr[k])] :
            to \in [1 .. n -> Timeouts], pr \in [1 .. n -> Priorities] } :
          n \in 0 .. Len(LockPrefixes) }

\* No velocity callback is in progress.
Idle ==
  [pc |-> "idle", i |-> 0, msg |-> TwistMsg(ZeroTwist), k |-> 0,
   lock_priority |-> 0, priority |-> 0, velocity_name |-> "NULL",
   t0 |-> 0, lock_serial |-> {}, serial |-> {}]

\* A variant of init() that creates the Twist publisher whatever
\* output_stamped says.
Init_BarePublisher ==
  /\ velocity_hs \in VelocityHandleLists
  /\ lock_hs \in LockHandleLists
  /\ Len(velocity_hs) + Len(lock_hs) <= MaxHandles
  /\ output_stamped \in BOOLEAN
  /\ cmd_pub_ = "Twist"
  /\ status_priority = 0
  /\ now = 0
  /\ ev = [kind |-> "none", name |-> "NULL"]
  /\ published = <<>>
  /\ fatal = FALSE
  /\ call = Idle

\* twist_mux.cpp:78-108: the state init() leaves.
Init ==
  /\ velocity_hs \in VelocityHandleLists
  /\ lock_hs \in LockHandleLists
  /\ Len(velocity_hs) + Len(lock_hs) <= MaxHandles
  /\ output_stamped \in BOOLEAN
  /\ cmd_pub_ = IF output_stamped THEN "TwistStamped" ELSE "Twist"
  /\ status_priority = 0
  /\ now = 0
  /\ ev = [kind |-> "none", name |-> "NULL"]
  /\ published = <<>>
  /\ fatal = FALSE
  /\ call = Idle

\* The velocity callback of handle i (specification 4.3, onVelocityReceived):
\* record the message and the reception time, then publish iff hasPriority.
VelocityCallback(i, msg) ==
  LET updated == [velocity_hs EXCEPT ![i].received = TRUE,
                                     ![i].stamp = now,
                                     ![i].msg = msg]
      res == IF hasPriority(updated, lock_hs, updated[i], now)
               THEN publishTwist(msg, output_stamped, cmd_pub_)
               ELSE [out |-> <<>>, fatal |-> FALSE]
  IN  /\ velocity_hs' = updated
      /\ published' = res.out
      /\ fatal' = res.fatal
      /\ ev' = [kind |-> "velocity", name |-> getName(updated[i])]
      /\ UNCHANGED << lock_hs, config, status_priority, now >>

\* The lock callback of handle j (specification 4.3, onLockReceived): record
\* the assertion and the reception time; nothing is published.
LockCallback(j, data) ==
  /\ lock_hs' = [lock_hs EXCEPT ![j].received = TRUE,
                                ![j].stamp = now,
                                ![j].data = data]
  /\ published' = <<>>
  /\ fatal' = FALSE
  /\ ev' = [kind |-> "lock", name |-> getName(lock_hs[j])]
  /\ UNCHANGED << velocity_hs, config, status_priority, now >>

\* A variant of updateDiagnostics that also publishes again the last command
\* of the source that has priority.
updateDiagnostics_Republish ==
  /\ status_priority' = getLockPriority(lock_hs, now)
  /\ published' =
       IF \E i \in DOMAIN velocity_hs :
            hasPriority(velocity_hs, lock_hs, velocity_hs[i], now)
         THEN LET i == CHOOSE k \in DOMAIN velocity_hs :
                         hasPriority(velocity_hs, lock_hs, velocity_hs[k], now)
              IN  publishTwist(velocity_hs[i].msg, output_stamped, cmd_pub_).out
         ELSE <<>>
  /\ fatal' = FALSE
  /\ ev' = [kind |-> "timer", name |-> "NULL"]
  /\ UNCHANGED << velocity_hs, lock_hs, config, now, call >>

\* A variant of updateDiagnostics that does not refresh status_->priority.
updateDiagnostics_NoRefresh ==
  /\ status_priority' = status_priority
  /\ published' = <<>>
  /\ fatal' = FALSE
  /\ ev' = [kind |-> "timer", name |-> "NULL"]
  /\ UNCHANGED << velocity_hs, lock_hs, config, now, call >>

\* twist_mux.cpp:110-114, run by the diagnostics timer (104-107).
updateDiagnostics ==
  /\ status_priority' = getLockPriority(lock_hs, now)
  /\ published' = <<>>
  /\ fatal' = FALSE
  /\ ev' = [kind |-> "timer", name |-> "NULL"]
  /\ UNCHANGED << velocity_hs, lock_hs, config, now, call >>

\* Time passes: no callback has run yet at the new instant.
Tick ==
  /\ now < MaxTime
  /\ now' = now + 1
  /\ ev' = [kind |-> "none", name |-> "NULL"]
  /\ published' = <<>>
  /\ fatal' = FALSE
  /\ UNCHANGED << velocity_hs, lock_hs, config, status_priority, call >>

VelocityReceived ==
  /\ \E i \in 1 .. Len(velocity_hs) :
       \E msg \in Inbound(velocity_hs[i].stamped, now) : VelocityCallback(i, msg)
  /\ UNCHANGED call

LockReceived ==
  /\ \E j \in 1 .. Len(lock_hs) : \E data \in BOOLEAN : LockCallback(j, data)
  /\ UNCHANGED call

Next == VelocityReceived \/ LockReceived \/ updateDiagnostics \/ Tick

Spec == Init /\ [][Next]_vars

(* ------------------------- notions of the claims ---------------------- *)

Max(S) == CHOOSE x \in S : \A y \in S : y <= x

\* The time since the last reception of a handle.
Age(h) == now - h.stamp

\* Received, and younger than the timeout.
Fresh(h) == h.received /\ Age(h) < h.timeout

\* A lock counts as locked: its last assertion is true and it is fresh.
LockedNow(l) == Fresh(l) /\ l.data

\* The greatest priority among the locked locks, 0 when there is none.
EffectiveLockPriority ==
  Max({0} \cup { lock_hs[j].priority :
                   j \in { k \in DOMAIN lock_hs : LockedNow(lock_hs[k]) } })

Sources == DOMAIN velocity_hs

\* Source i is neither stale nor masked by the locks.
Unmasked(i) ==
  /\ Fresh(velocity_hs[i])
  /\ ~(velocity_hs[i].priority < EffectiveLockPriority)

\* Source i is the winner: unmasked, and no other unmasked source has a
\* greater priority, or an equal one and an earlier place in the list.
Winner(i) ==
  /\ Unmasked(i)
  /\ \A k \in Sources \ {i} :
       Unmasked(k) =>
         \/ velocity_hs[k].priority < velocity_hs[i].priority
         \/ (velocity_hs[k].priority = velocity_hs[i].priority /\ i < k)

\* What hasPriority answers for source i in the current state.
HasPriorityNow(i) == hasPriority(velocity_hs, lock_hs, velocity_hs[i], now)

\* The velocity callback ran last, for the source at this place of the list.
AfterVelocity == ev.kind = "velocity"
Updated == CHOOSE i \in Sources : velocity_hs[i].name = ev.name

Forwarded == published # <<>>

(* ------------------------------- claims ------------------------------- *)

\* C1: hasPriority(s) holds, and the update of s is forwarded, if and only
\* if s is the winner: unmasked, with no other unmasked source of greater
\* priority or of equal priority and earlier registration; sources of
\* priority 0 included.
C1_ForwardedIffWinner ==
  /\ \A i \in Sources : HasPriorityNow(i) <=> Winner(i)
  /\ AfterVelocity => (Forwarded <=> Winner(Updated))

\* C2: at most one registered velocity source satisfies hasPriority.
C2_AtMostOneHasPriority ==
  \A i, k \in Sources : HasPriorityNow(i) /\ HasPriorityNow(k) => i = k

\* Two unmasked sources of the same priority, one of which has priority.
C2_Witness ==
  /\ Len(velocity_hs) = 2
  /\ Unmasked(1) /\ Unmasked(2)
  /\ velocity_hs[1].priority = velocity_hs[2].priority
  /\ HasPriorityNow(1) /\ ~HasPriorityNow(2)

\* C3: a source is masked by the locks iff its priority is strictly less
\* than the effective lock priority: an update of s is forwarded iff s's
\* priority is not below the effective lock priority and s would be
\* forwarded were there no locks at all.
C3_MaskedByLockIffLower ==
  /\ \A i \in Sources :
       Fresh(velocity_hs[i]) =>
         ( isMasked(velocity_hs[i], getLockPriority(lock_hs, now), now)
             <=> velocity_hs[i].priority < EffectiveLockPriority )
  /\ AfterVelocity =>
       ( Forwarded <=>
           /\ ~(velocity_hs[Updated].priority < EffectiveLockPriority)
           /\ hasPriority(velocity_hs, <<>>, velocity_hs[Updated], now) )

\* An update is forwarded while a lock of the same priority is locked.
C3_Witness ==
  /\ AfterVelocity /\ Forwarded
  /\ EffectiveLockPriority > 0
  /\ velocity_hs[Updated].priority = EffectiveLockPriority

\* C4: getLockPriority returns the maximum priority over the lock handles
\* that are locked, and 0 when none is locked.
C4_LockPriorityIsMax ==
  getLockPriority(lock_hs, now) =
    Max({0} \cup { getPriority(lock_hs[j]) :
                     j \in { k \in DOMAIN lock_hs : isLocked(lock_hs[k], now) } })

\* Two locked locks, the first of the greater priority.
C4_Witness ==
  /\ Len(lock_hs) = 2
  /\ isLocked(lock_hs[1], now) /\ isLocked(lock_hs[2], now)
  /\ lock_hs[1].priority > lock_hs[2].priority
  /\ getLockPriority(lock_hs, now) = lock_hs[1].priority

\* C5: only locks whose last assertion is true and whose age is strictly
\* less than their timeout count: the lock priority is that of the list with
\* every other lock removed, and 0 when no lock is of that kind.
C5_OnlyFreshAssertedLocksCount ==
  /\ getLockPriority(lock_hs, now) =
       getLockPriority(SelectSeq(lock_hs, LockedNow), now)
  /\ (\A j \in DOMAIN lock_hs : ~LockedNow(lock_hs[j]))
       => getLockPriority(lock_hs, now) = 0

\* A lock asserted exactly one timeout ago, one asserted false just now, and
\* a lock priority of 0.
C5_Witness ==
  /\ Len(lock_hs) = 2
  /\ lock_hs[1].received /\ lock_hs[1].data /\ lock_hs[1].priority > 0
  /\ lock_hs[1].timeout > 0 /\ Age(lock_hs[1]) = lock_hs[1].timeout
  /\ lock_hs[2].received /\ ~lock_hs[2].data /\ lock_hs[2].priority > 0
  /\ Age(lock_hs[2]) < lock_hs[2].timeout
  /\ getLockPriority(lock_hs, now) = 0

\* C6: a velocity source is stale exactly when it has never received a
\* command or its age is at least its timeout; a stale source is masked
\* whatever the lock priority and never has priority, and its own update is
\* not forwarded; a source younger than its timeout whose priority is not
\* below the effective lock priority is unmasked.
C6_StaleIsMasked ==
  /\ \A i \in Sources :
       LET h == velocity_hs[i]
           stale == (~h.received) \/ Age(h) >= h.timeout
       IN  /\ hasExpired(h, now) <=> stale
           /\ stale => /\ \A lp \in Priorities : isMasked(h, lp, now)
                       /\ ~HasPriorityNow(i)
           /\ (~stale /\ ~(h.priority < EffectiveLockPriority))
                => ~isMasked(h, getLockPriority(lock_hs, now), now)
  /\ (AfterVelocity /\ ~Fresh(velocity_hs[Updated])) => ~Forwarded

\* A source of the greatest priority, exactly as old as its timeout, with no
\* lock locked and no other source unmasked: it does not have priority.
C6_Witness ==
  /\ velocity_hs[1].received /\ velocity_hs[1].timeout > 0
  /\ Age(velocity_hs[1]) = velocity_hs[1].timeout
  /\ velocity_hs[1].priority = MaxPriority
  /\ EffectiveLockPriority = 0
  /\ \A k \in Sources : ~Unmasked(k)
  /\ ~HasPriorityNow(1)

\* C7: when two or more unmasked sources share the highest priority, the
\* one registered earliest has priority and the later ones do not.
C7_EarliestOfEqualWins ==
  \A i, k \in Sources :
    ( /\ i < k
      /\ Unmasked(i) /\ Unmasked(k)
      /\ velocity_hs[i].priority = velocity_hs[k].priority
      /\ \A m \in Sources :
           Unmasked(m) => velocity_hs[m].priority <= velocity_hs[i].priority )
    => (HasPriorityNow(i) /\ ~HasPriorityNow(k))

\* C8: a lock reception and the diagnostics timer publish nothing and leave
\* the velocity handles alone; a lock reception changes only its own lock
\* handle, the timer only the status priority.
C8_OnlyVelocityPublishes ==
  [][ (ev'.kind \in {"lock", "timer"}) =>
        /\ published' = <<>>
        /\ velocity_hs' = velocity_hs
        /\ config' = config
        /\ (ev'.kind = "lock") =>
             /\ status_priority' = status_priority
             /\ \A j \in DOMAIN lock_hs :
                  lock_hs'[j].name # ev'.name => lock_hs'[j] = lock_hs[j]
        /\ (ev'.kind = "timer") => lock_hs' = lock_hs
    ]_vars

\* A lock reception has just released a lock above a fresh source, which now
\* has priority; nothing is published.
C8_Witness ==
  /\ ev.kind = "lock"
  /\ \E j \in DOMAIN lock_hs :
       /\ lock_hs[j].name = ev.name
       /\ lock_hs[j].received /\ ~lock_hs[j].data /\ lock_hs[j].stamp = now
       /\ lock_hs[j].timeout > 0
       /\ \E i \in Sources :
            /\ HasPriorityNow(i)
            /\ velocity_hs[i].priority < lock_hs[j].priority
  /\ published = <<>>

\* C9: a callback publishes at most one command; a published command is
\* published by a velocity callback and carries the twist that callback has
\* just received.
C9_OutputIsTriggeringCommand ==
  /\ Len(published) <= 1
  /\ Forwarded =>
       /\ AfterVelocity
       /\ velocity_hs[Updated].stamp = now
       /\ published[1].twist = velocity_hs[Updated].msg.twist

\* An update is forwarded while the other source holds a different twist,
\* received earlier and not forwarded since.
C9_Witness ==
  /\ Len(velocity_hs) = 2
  /\ AfterVelocity /\ Forwarded
  /\ \E k \in Sources \ {Updated} :
       /\ velocity_hs[k].received
       /\ velocity_hs[k].msg.twist # velocity_hs[Updated].msg.twist
       /\ published[1].twist # velocity_hs[k].msg.twist

\* C10: with one lock of priority P, last asserted true at t0, and a source
\* of priority p, 0 < p < P, that would be forwarded were there no lock: an
\* update of the source at t is not forwarded if t - t0 < T and is forwarded
\* if t - t0 >= T, T being the lock's timeout.
C10_LockExpiryReleases ==
  ( /\ AfterVelocity
    /\ Len(lock_hs) = 1
    /\ lock_hs[1].received /\ lock_hs[1].data
    /\ 0 < velocity_hs[Updated].priority
    /\ velocity_hs[Updated].priority < lock_hs[1].priority
    /\ hasPriority(velocity_hs, <<>>, velocity_hs[Updated], now) )
  => (Forwarded <=> Age(lock_hs[1]) >= lock_hs[1].timeout)

\* The lock has expired and the update of the source is forwarded.
C10_Witness ==
  /\ AfterVelocity /\ Forwarded
  /\ Len(lock_hs) = 1
  /\ lock_hs[1].received /\ lock_hs[1].data
  /\ lock_hs[1].timeout > 0 /\ Age(lock_hs[1]) = lock_hs[1].timeout
  /\ 0 < velocity_hs[Updated].priority
  /\ velocity_hs[Updated].priority < lock_hs[1].priority


\* C11: with no lock locked, an update of a source is not forwarded while a
\* source of higher priority is fresh; once every source of higher priority
\* is stale, an update of the lower-priority source (itself fresh, and with
\* no fresh source of equal priority registered before it) is forwarded.
C11_HandOver ==
  ( /\ AfterVelocity
    /\ EffectiveLockPriority = 0
    /\ \E k \in Sources :
         velocity_hs[k].priority > velocity_hs[Updated].priority )
  => LET s == Updated
         higherFresh ==
           \E k \in Sources : /\ velocity_hs[k].priority > velocity_hs[s].priority
                              /\ Fresh(velocity_hs[k])
         equalBefore ==
           \E k \in Sources : /\ k < s
                              /\ velocity_hs[k].priority = velocity_hs[s].priority
                              /\ Fresh(velocity_hs[k])
     IN  /\ higherFresh => ~Forwarded
         /\ (~higherFresh /\ Fresh(velocity_hs[s]) /\ ~equalBefore) => Forwarded

\* C12: publishTwist keeps the twist of the message it is given and
\* publishes a TwistStamped exactly when output_stamped is true, for a Twist
\* and for a TwistStamped input; so does every forwarded update.
C12_TranslationKeepsTwist ==
  /\ \A i \in Sources :
       \A msg \in Inbound(velocity_hs[i].stamped, now) :
         LET r == publishTwist(msg, output_stamped, cmd_pub_)
         IN  /\ Len(r.out) = 1
             /\ r.out[1].twist = msg.twist
             /\ (r.out[1].kind = "TwistStamped") <=> output_stamped
             /\ (output_stamped /\ msg.kind = "TwistStamped") => r.out[1] = msg
  /\ Forwarded =>
       /\ published[1].twist = velocity_hs[Updated].msg.twist
       /\ (published[1].kind = "TwistStamped") <=> output_stamped

\* An update of the stamped source is forwarded as a bare Twist.
C12_Witness ==
  /\ AfterVelocity /\ Forwarded
  /\ velocity_hs[Updated].stamped
  /\ ~output_stamped
  /\ published[1] = TwistMsg(velocity_hs[Updated].msg.twist)

\* C13: for a bare-valued source and a time-stamped output, the command
\* forwarded for a reception at time t carries the twist received and the
\* timestamp t.
C13_WrapStampsReceptionTime ==
  ( /\ AfterVelocity /\ Forwarded
    /\ ~velocity_hs[Updated].stamped
    /\ output_stamped )
  => /\ published[1].twist = velocity_hs[Updated].msg.twist
     /\ published[1].header.stamp = velocity_hs[Updated].stamp


C19_PublisherMatchesFlag ==
  /\ [](/\ cmd_pub_ = (IF output_stamped THEN "TwistStamped" ELSE "Twist")
        /\ ~fatal
        /\ (AfterVelocity /\ HasPriorityNow(Updated)) => Len(published) = 1)
  /\ [][config' = config]_vars

\* An update of the bare source is published by the TwistStamped publisher.
C19_Witness ==
  /\ AfterVelocity /\ HasPriorityNow(Updated)
  /\ output_stamped /\ cmd_pub_ = "TwistStamped"
  /\ ~velocity_hs[Updated].stamped
  /\ Len(published) = 1 /\ published[1].kind = "TwistStamped"

UnregisteredNames == {"topics.z", "locks.z"}

\* A message arrives under a name getTopicHandles registered no handle for
\* (twist_mux.cpp:186-196 creates one handle, with its subscription, per
\* configured name): no callback of the node runs, nothing is published
\* and nothing is logged.
UnregisteredReceived ==
  \E n \in UnregisteredNames :
    /\ ev' = [kind |-> "unregistered", name |-> n]
    /\ published' = <<>>
    /\ fatal' = FALSE
    /\ UNCHANGED << velocity_hs, lock_hs, config, status_priority, now,
                    call >>

NextUnregistered == Next \/ UnregisteredReceived

SpecUnregistered == Init /\ [][NextUnregistered]_vars

BeginVelocity(i, msg) ==
  LET updated == [velocity_hs EXCEPT ![i].received = TRUE,
                                     ![i].stamp = now,
                                     ![i].msg = msg]
  IN  /\ call.pc = "idle"
      /\ velocity_hs' = updated
      /\ call' = [pc |-> "locks", i |-> i, msg |-> msg, k |-> 1,
                  lock_priority |-> 0, priority |-> 0,
                  velocity_name |-> "NULL", t0 |-> now,
                  lock_serial |-> {getLockPriority(lock_hs, now)},
                  serial |-> {hasPriority(updated, lock_hs, updated[i], now)}]
      /\ ev' = [kind |-> "none", name |-> "NULL"]
      /\ published' = <<>>
      /\ fatal' = FALSE
      /\ UNCHANGED << lock_hs, config, status_priority, now >>

VelocityBegins ==
  \E i \in 1 .. Len(velocity_hs) :
    \E msg \in Inbound(velocity_hs[i].stamped, now) : BeginVelocity(i, msg)

\* twist_mux.cpp:210-221, 229-230: one pass of the loop of getLockPriority,
\* lock_h.isLocked() reading the clock when it is called; past the last
\* handle, the priority found is returned to hasPriority, which sets
\* priority = 0 and velocity_name = "NULL".
LockPriorityStep ==
  /\ call.pc = "locks"
  /\ call' =
       IF call.k <= Len(lock_hs)
         THEN LET lock_h == lock_hs[call.k]
                  tmp == getPriority(lock_h)
              IN  [call EXCEPT
                     !.k = @ + 1,
                     !.lock_priority =
                        IF isLocked(lock_h, now) /\ @ < tmp THEN tmp ELSE @]
         ELSE [call EXCEPT !.pc = "vels", !.k = 1, !.priority = 0,
                           !.velocity_name = "NULL"]
  /\ UNCHANGED << velocity_hs, lock_hs, config, status_priority, now, ev,
                  published, fatal >>

\* twist_mux.cpp:234-244: one pass of the loop of hasPriority,
\* handle.isMasked(lock_priority) reading the clock when it is called.
VelocityStep ==
  /\ call.pc = "vels"
  /\ call.k <= Len(velocity_hs)
  /\ LET handle == velocity_hs[call.k]
         velocity_priority == getPriority(handle)
         found == (~isMasked(handle, call.lock_priority, now))
                    /\ call.priority < velocity_priority
     IN  call' = [call EXCEPT
                    !.k = @ + 1,
                    !.priority = IF found THEN velocity_priority ELSE @,
                    !.velocity_name = IF found THEN getName(handle) ELSE @]
  /\ UNCHANGED << velocity_hs, lock_hs, config, status_priority, now, ev,
                  published, fatal >>

\* twist_mux.cpp:246 and the end of the callback: the names are compared and
\* the message is published iff they are equal.
VelocityReturn ==
  /\ call.pc = "vels"
  /\ call.k > Len(velocity_hs)
  /\ LET twist == velocity_hs[call.i]
         res == IF getName(twist) = call.velocity_name
                  THEN publishTwist(call.msg, output_stamped, cmd_pub_)
                  ELSE [out |-> <<>>, fatal |-> FALSE]
     IN  /\ published' = res.out
         /\ fatal' = res.fatal
         /\ ev' = [kind |-> "velocity", name |-> getName(twist)]
  /\ call' = [call EXCEPT !.pc = "idle"]
  /\ UNCHANGED << velocity_hs, lock_hs, config, status_priority, now >>

\* The configurations the step-by-step specifications start from.
InitSteps ==
  /\ Init
  /\ ~output_stamped
  /\ \A i \in DOMAIN velocity_hs : velocity_hs[i].timeout = MaxTimeout
  /\ \A j \in DOMAIN lock_hs : lock_hs[j].timeout = MaxTimeout

\* One thread runs the callbacks one after the other; the clock advances
\* while a callback runs.
NextSkew ==
  \/ VelocityBegins
  \/ LockPriorityStep
  \/ VelocityStep
  \/ VelocityReturn
  \/ Tick
  \/ (call.pc = "idle" /\ LockReceived)
  \/ (call.pc = "idle" /\ updateDiagnostics)

SpecSkew == InitSteps /\ [][NextSkew]_vars

\* C16: the decision of a velocity callback is the decision hasPriority
\* gives at one single instant between the start and the end of the call.
C16_DecisionAtOneInstant ==
  AfterVelocity =>
    \E t \in call.t0 .. now :
      Forwarded <=> hasPriority(velocity_hs, lock_hs, velocity_hs[Updated], t)

\* A lock callback runs on another thread while a velocity callback is in
\* progress.
LockReceivedMeanwhile ==
  /\ \E j \in 1 .. Len(lock_hs) : \E data \in BOOLEAN : LockCallback(j, data)
  /\ call' =
       IF call.pc = "idle"
         THEN call
         ELSE [call EXCEPT
                 !.lock_serial = @ \cup {getLockPriority(lock_hs', now)},
                 !.serial = @ \cup {hasPriority(velocity_hs, lock_hs',
                                                velocity_hs[call.i], now)}]

\* The callbacks run on the threads of a pool and nothing serialises them;
\* the clock stands still while a velocity callback runs.
NextThreads ==
  \/ VelocityBegins
  \/ LockPriorityStep
  \/ VelocityStep
  \/ VelocityReturn
  \/ LockReceivedMeanwhile
  \/ updateDiagnostics
  \/ (call.pc = "idle" /\ Tick)

SpecThreads == InitSteps /\ [][NextThreads]_vars

\* C14: the lock priority a velocity callback computes, and its decision,
\* are those of some serial order of the calls: what getLockPriority and
\* hasPriority answer when run alone at some moment of the call.
C14_DecisionOfSomeSerialOrder ==
  AfterVelocity =>
    /\ call.lock_priority \in call.lock_serial
    /\ Forwarded \in call.serial

====
